---------------------------- MODULE Spec2Model ----------------------------
(***************************************************************************)
(* A model of mvg-cli: the command handlers of src/src/main.rs, the line   *)
(* badge colouring of src/src/colorize.rs (and its copy in main.rs) and    *)
(* the request/response types of src/mvg-api/src.                          *)
(*                                                                         *)
(* Strings are sequences of one-character strings, so that formatting,     *)
(* lower-casing and substring search are computed character by character.  *)
(* The escape character 0x1b is written "ESC".                             *)
(***************************************************************************)
EXTENDS Integers, Sequences, FiniteSets, TLC

VARIABLES
    pc,             \* position of the process in main / the running handler
    command,        \* args.command, the parsed command line
    ids,            \* the station ids bound so far (from_id, to_id, station_id)
    requests,       \* the requests sent to the service, in order
    response,       \* the last response received from the service, decoded
    table_entries,  \* the rows built so far
    stdout,         \* what was printed, in order: lines and tables
    outcome,        \* how the process ended: Ok, Err or panic, and where
    clock,          \* the last reading of Local::now(), None before the first
    lines,          \* colorize: the labels handed to colorize_line
    styled,         \* colorize: the badges colorize_line returned
    renderer        \* colorize: which copy of colorize_line produced `styled`

vars == <<pc, command, ids, requests, response, table_entries, stdout, outcome,
          clock, lines, styled, renderer>>

cliVars == <<pc, command, ids, requests, response, table_entries, stdout, outcome,
             clock>>

colorVars == <<lines, styled, renderer>>

\* Option<T>: None is the empty sequence, Some(x) the sequence holding x
None == <<>>

Some(x) == <<x>>

IsSome(o) == Len(o) = 1

Unwrap(o) == o[1]


(***************************************************************************)
(* Bounds of the model.                                                    *)
(***************************************************************************)
MaxLineNo == 9
MaxLines == 2

(***************************************************************************)
(* Integer formatting: i.to_string() of the Rust standard library.         *)
(***************************************************************************)
DigitChars == <<"0", "1", "2", "3", "4", "5", "6", "7", "8", "9">>

RECURSIVE NatToString(_)
NatToString(n) ==
    IF n < 10 THEN <<DigitChars[n + 1]>>
    ELSE NatToString(n \div 10) \o <<DigitChars[(n % 10) + 1]>>

to_string(i) ==
    IF i < 0 THEN <<"-">> \o NatToString(-i) ELSE NatToString(i)

(***************************************************************************)
(* nu_ansi_term: Fixed(fg).on(Fixed(bg)).paint(text).to_string() writes    *)
(* ESC[48;5;<bg>;38;5;<fg>m, the text, and the reset ESC[0m; a plain       *)
(* style (Style::new(), Style::default()) writes the text alone.           *)
(***************************************************************************)
ESC == "ESC"

PlainStyle == [plain |-> TRUE, fg |-> 0, bg |-> 0]

FixedOn(fg, bg) == [plain |-> FALSE, fg |-> fg, bg |-> bg]

paint(style, text) ==
    IF style.plain THEN text
    ELSE <<ESC, "[", "4", "8", ";", "5", ";">> \o NatToString(style.bg)
         \o <<";", "3", "8", ";", "5", ";">> \o NatToString(style.fg)
         \o <<"m">> \o text \o <<ESC, "[", "0", "m">>

(***************************************************************************)
(* src/src/colorize.rs                                                     *)
(***************************************************************************)
starts_with(line, c) == Len(line) >= 1 /\ line[1] = c

colorize_bg(line, background_color) ==
    paint(FixedOn(255, background_color), <<" ">> \o line \o <<" ">>)

\* colorized_ubahn with U8 painted on one background
colorized_ubahn_u8_uniform(line) ==
    CASE line = <<"U", "1">> -> colorize_bg(line, 22)
      [] line = <<"U", "2">> -> colorize_bg(line, 124)
      [] line = <<"U", "3">> -> colorize_bg(line, 166)
      [] line = <<"U", "4">> -> colorize_bg(line, 30)
      [] line = <<"U", "5">> -> colorize_bg(line, 94)
      [] line = <<"U", "6">> -> colorize_bg(line, 20)
      [] line = <<"U", "7">> ->
            paint(FixedOn(255, 22), <<" ", line[1]>>)
            \o paint(FixedOn(255, 124), <<line[2], " ">>)
      [] line = <<"U", "8">> -> colorize_bg(line, 124)
      [] OTHER -> line

colorized_ubahn(line) ==
    CASE line = <<"U", "1">> -> colorize_bg(line, 22)
      [] line = <<"U", "2">> -> colorize_bg(line, 124)
      [] line = <<"U", "3">> -> colorize_bg(line, 166)
      [] line = <<"U", "4">> -> colorize_bg(line, 30)
      [] line = <<"U", "5">> -> colorize_bg(line, 94)
      [] line = <<"U", "6">> -> colorize_bg(line, 20)
      [] line = <<"U", "7">> ->
            LET lhs == paint(FixedOn(255, 22), <<" ", line[1]>>)
                rhs == paint(FixedOn(255, 124), <<line[2], " ">>)
            IN  paint(PlainStyle, lhs \o rhs)
      [] line = <<"U", "8">> ->
            LET lhs == paint(FixedOn(255, 124), <<" ", line[1]>>)
                rhs == paint(FixedOn(255, 166), <<line[2], " ">>)
            IN  paint(PlainStyle, lhs \o rhs)
      [] OTHER -> line

\* colorize_sbahn with the fallback arm painting the label
colorize_sbahn_styled_fallback(line) ==
    CASE line = <<"S", "1">> -> colorize_bg(line, 73)
      [] line = <<"S", "2">> -> colorize_bg(line, 34)
      [] line = <<"S", "3">> -> colorize_bg(line, 53)
      [] line = <<"S", "4">> -> colorize_bg(line, 196)
      [] line = <<"S", "6">> -> colorize_bg(line, 29)
      [] line = <<"S", "7">> -> colorize_bg(line, 204)
      [] line = <<"S", "8">> ->
            paint(FixedOn(226, 233), <<" ">> \o line \o <<" ">>)
      [] line = <<"S", "2", "0">> -> colorize_bg(line, 203)
      [] OTHER -> colorize_bg(line, 0)

colorize_sbahn(line) ==
    CASE line = <<"S", "1">> -> colorize_bg(line, 73)
      [] line = <<"S", "2">> -> colorize_bg(line, 34)
      [] line = <<"S", "3">> -> colorize_bg(line, 53)
      [] line = <<"S", "4">> -> colorize_bg(line, 196)
      [] line = <<"S", "6">> -> colorize_bg(line, 29)
      [] line = <<"S", "7">> -> colorize_bg(line, 204)
      [] line = <<"S", "8">> ->
            paint(FixedOn(226, 233), <<" ">> \o line \o <<" ">>)
      [] line = <<"S", "2", "0">> -> colorize_bg(line, 203)
      [] OTHER -> line

colorize_line(line) ==
    IF starts_with(line, "U") THEN colorized_ubahn(line)
    ELSE IF starts_with(line, "S") THEN colorize_sbahn(line)
    ELSE line

(***************************************************************************)
(* The copy of the three functions at the end of src/src/main.rs, the one  *)
(* the handlers of main.rs call.                                           *)
(***************************************************************************)
main_paint_padded(line, background_color) ==
    paint(FixedOn(255, background_color), <<" ">> \o line \o <<" ">>)

main_colorized_ubahn(line) ==
    CASE line = <<"U", "1">> -> main_paint_padded(line, 22)
      [] line = <<"U", "2">> -> main_paint_padded(line, 124)
      [] line = <<"U", "3">> -> main_paint_padded(line, 166)
      [] line = <<"U", "4">> -> main_paint_padded(line, 30)
      [] line = <<"U", "5">> -> main_paint_padded(line, 94)
      [] line = <<"U", "6">> -> main_paint_padded(line, 20)
      [] line = <<"U", "7">> ->
            LET lhs == paint(FixedOn(255, 22), <<" ", line[1]>>)
                rhs == paint(FixedOn(255, 124), <<line[2], " ">>)
            IN  paint(PlainStyle, lhs \o rhs)
      [] line = <<"U", "8">> ->
            LET lhs == paint(FixedOn(255, 124), <<" ", line[1]>>)
                rhs == paint(FixedOn(255, 166), <<line[2], " ">>)
            IN  paint(PlainStyle, lhs \o rhs)
      [] OTHER -> paint(PlainStyle, line)

main_colorize_sbahn(line) ==
    CASE line = <<"S", "1">> -> main_paint_padded(line, 73)
      [] line = <<"S", "2">> -> main_paint_padded(line, 34)
      [] line = <<"S", "3">> -> main_paint_padded(line, 53)
      [] line = <<"S", "4">> -> main_paint_padded(line, 196)
      [] line = <<"S", "6">> -> main_paint_padded(line, 29)
      [] line = <<"S", "7">> -> main_paint_padded(line, 204)
      [] line = <<"S", "8">> ->
            LET lhs == paint(FixedOn(255, 233), <<" ", line[1]>>)
                rhs == paint(FixedOn(255, 226), <<line[2], " ">>)
            IN  paint(PlainStyle, lhs \o rhs)
      [] line = <<"S", "2", "0">> -> main_paint_padded(line, 203)
      [] OTHER -> paint(PlainStyle, line)

main_colorize_line(line) ==
    IF starts_with(line, "U") THEN main_colorized_ubahn(line)
    ELSE IF starts_with(line, "S") THEN main_colorize_sbahn(line)
    ELSE line

(***************************************************************************)
(* The labels handed to colorize_line: the empty label, a bare prefix, and *)
(* a prefix letter (underground, suburban, night bus) followed by a line   *)
(* number; S20 is the one mapped line with a two-digit number.             *)
(***************************************************************************)
LineNumbers == (0..MaxLineNo) \cup {20}

Prefixes == {<<"U">>, <<"S">>, <<"N">>}

Labels ==
    {<<>>, <<"U">>} \cup {p \o NatToString(n) : p \in Prefixes, n \in LineNumbers}

RECURSIVE SeqsUpTo(_, _)
SeqsUpTo(S, n) ==
    IF n = 0 THEN {<<>>}
    ELSE LET shorter == SeqsUpTo(S, n - 1)
         IN  shorter \cup {Append(s, x) : s \in shorter, x \in S}

\* colorize.rs: every label of the list goes through colorize_line
ColorizeLines ==
    /\ renderer = "none"
    /\ styled' = [i \in 1..Len(lines) |-> colorize_line(lines[i])]
    /\ renderer' = "colorize.rs"
    /\ UNCHANGED lines

\* main.rs: every label of the list goes through main.rs's colorize_line
MainColorizeLines ==
    /\ renderer = "none"
    /\ styled' = [i \in 1..Len(lines) |-> main_colorize_line(lines[i])]
    /\ renderer' = "main.rs"
    /\ UNCHANGED lines


(***************************************************************************)
(* Reading a badge back: the sequence of its segments, each the text       *)
(* between one ESC[48;5;<bg>;38;5;<fg>m and the next ESC[0m with the two   *)
(* colour numbers, or a run of unstyled text (bg and fg -1). A badge that  *)
(* is not of this shape yields a segment with bg and fg -2.                *)
(***************************************************************************)
IsDigit(c) == \E i \in 1..10 : DigitChars[i] = c

DigitValue(c) == (CHOOSE i \in 1..10 : DigitChars[i] = c) - 1

RECURSIVE DigitsEnd(_, _)
DigitsEnd(s, i) ==
    IF i <= Len(s) /\ IsDigit(s[i]) THEN DigitsEnd(s, i + 1) ELSE i

RECURSIVE ParseNat(_)
ParseNat(digits) ==
    IF Len(digits) = 0 THEN 0
    ELSE 10 * ParseNat(SubSeq(digits, 1, Len(digits) - 1))
         + DigitValue(digits[Len(digits)])

StartsWithAt(s, i, p) ==
    /\ i + Len(p) - 1 <= Len(s)
    /\ SubSeq(s, i, i + Len(p) - 1) = p

RECURSIVE FindEsc(_, _)
FindEsc(s, i) ==
    IF i > Len(s) \/ s[i] = ESC THEN i ELSE FindEsc(s, i + 1)

Malformed == <<[bg |-> -2, fg |-> -2, text |-> <<>>]>>

RECURSIVE SegmentsFrom(_, _)
SegmentsFrom(s, i) ==
    IF i > Len(s) THEN <<>>
    ELSE IF s[i] # ESC
    THEN LET e == FindEsc(s, i)
         IN  <<[bg |-> -1, fg |-> -1, text |-> SubSeq(s, i, e - 1)]>>
             \o SegmentsFrom(s, e)
    ELSE IF ~StartsWithAt(s, i, <<ESC, "[", "4", "8", ";", "5", ";">>)
    THEN Malformed
    ELSE LET j == DigitsEnd(s, i + 7)
         IN  IF j = i + 7 \/ ~StartsWithAt(s, j, <<";", "3", "8", ";", "5", ";">>)
             THEN Malformed
             ELSE LET k == DigitsEnd(s, j + 6)
                  IN  IF k = j + 6 \/ ~StartsWithAt(s, k, <<"m">>)
                      THEN Malformed
                      ELSE LET e == FindEsc(s, k + 1)
                           IN  IF ~StartsWithAt(s, e, <<ESC, "[", "0", "m">>)
                               THEN Malformed
                               ELSE <<[bg |-> ParseNat(SubSeq(s, i + 7, j - 1)),
                                       fg |-> ParseNat(SubSeq(s, j + 6, k - 1)),
                                       text |-> SubSeq(s, k + 1, e - 1)]>>
                                    \o SegmentsFrom(s, e + 4)

Segments(badge) == SegmentsFrom(badge, 1)

Padded(label) == <<" ">> \o label \o <<" ">>

\* the whole padded label on one background
IsUniform(badge, label) ==
    LET segs == Segments(badge)
    IN  /\ Len(segs) = 1
        /\ segs[1].bg \in 0..255
        /\ segs[1].fg \in 0..255
        /\ segs[1].text = Padded(label)

\* the first and the second character on two different backgrounds
IsTwoTone(badge, label) ==
    LET segs == Segments(badge)
    IN  /\ Len(label) = 2
        /\ Len(segs) = 2
        /\ segs[1].bg \in 0..255
        /\ segs[2].bg \in 0..255
        /\ segs[1].bg # segs[2].bg
        /\ segs[1].text = <<" ", label[1]>>
        /\ segs[2].text = <<label[2], " ">>

MappedU == {<<"U", DigitChars[n + 1]>> : n \in 1..8}

MappedS == {<<"S", DigitChars[n + 1]>> : n \in {1, 2, 3, 4, 6, 7, 8}} \cup {<<"S", "2", "0">>}

MappedLabels == MappedU \cup MappedS

Rendered == renderer # "none"


(***************************************************************************)
(* The renderer on its own: a list of labels, rendered by either copy.     *)
(***************************************************************************)
InitColorize ==
    /\ lines \in SeqsUpTo(Labels, MaxLines)
    /\ styled = <<>>
    /\ renderer = "none"
    /\ pc = "idle"
    /\ command = [cmd |-> "none"]
    /\ ids = [from_id |-> None, to_id |-> None, station_id |-> None]
    /\ requests = <<>>
    /\ response = [of |-> "none", ok |-> TRUE, value |-> <<>>]
    /\ table_entries = <<>>
    /\ stdout = <<>>
    /\ outcome = [status |-> "running", error |-> "", at |-> ""]
    /\ clock = None

NextColorize ==
    \/ ColorizeLines /\ UNCHANGED cliVars
    \/ MainColorizeLines /\ UNCHANGED cliVars

SpecColorize == InitColorize /\ [][NextColorize]_vars

\* C5: colorize_line is a function of the label alone (equal labels give
\* equal badges), it returns one badge per label, and a label that is not one
\* of the mapped lines comes back as exactly the label, in either copy.
UnmappedLabelPassesThrough ==
    Rendered =>
        /\ Len(styled) = Len(lines)
        /\ \A i \in 1..Len(lines) :
              /\ lines[i] \notin MappedLabels => styled[i] = lines[i]
              /\ \A j \in 1..Len(lines) :
                    lines[i] = lines[j] => styled[i] = styled[j]

UnmappedLabelRendered ==
    /\ renderer = "colorize.rs"
    /\ lines = << <<"U", "9">>, <<"N", "4">> >>
    /\ styled = lines

TwoToneLabels ==
    IF renderer = "colorize.rs"
    THEN {<<"U", "7">>, <<"U", "8">>}
    ELSE {<<"U", "7">>, <<"U", "8">>, <<"S", "8">>}

\* C6 (as amended): of the mapped labels, U7 and U8 render two-tone in both
\* copies and S8 only in the copy of main.rs; every other mapped label is
\* the whole padded label on one background.
TwoToneExactlyWhereTheCodeSplits ==
    Rendered =>
        \A i \in 1..Len(lines) :
            lines[i] \in MappedLabels =>
                IF lines[i] \in TwoToneLabels
                THEN IsTwoTone(styled[i], lines[i])
                ELSE IsUniform(styled[i], lines[i])

TwoToneAndUniformRendered ==
    /\ renderer = "colorize.rs"
    /\ lines = << <<"U", "7">>, <<"S", "8">> >>
    /\ IsTwoTone(styled[1], lines[1])
    /\ IsUniform(styled[2], lines[2])

\* C6 (as stated): exactly one underground and one suburban label render
\* two-tone, every other mapped label uniformly.
OneTwoTonePerNetwork ==
    Rendered =>
        \E u \in MappedU, s \in MappedS :
            \A i \in 1..Len(lines) :
                lines[i] \in MappedLabels =>
                    IF lines[i] \in {u, s}
                    THEN IsTwoTone(styled[i], lines[i])
                    ELSE IsUniform(styled[i], lines[i])


(***************************************************************************)
(* Time. An instant (DateTime<Local>) is the number of seconds since local *)
(* midnight of day 0; the local UTC offset is taken as constant.           *)
(***************************************************************************)
SecondsPerDay == 24 * 60 * 60

At(day, hour, minute, second) ==
    day * SecondsPerDay + hour * 3600 + minute * 60 + second

\* DateTime::time(): the time of day, the date dropped
time(instant) == instant % SecondsPerDay

\* DateTime::date_naive(), as the instant of that day's midnight
date_naive(instant) == instant - (instant % SecondsPerDay)

\* integer division of Rust: the quotient truncated toward zero
TruncDiv(a, b) == IF a >= 0 THEN a \div b ELSE -((-a) \div b)

\* chrono::Duration::num_minutes() of a duration given in seconds
num_minutes(seconds) == TruncDiv(seconds, 60)

Pad2(n) == IF n < 10 THEN <<"0">> \o NatToString(n) ELSE NatToString(n)

\* format("%H:%M")
format_HM(instant) ==
    Pad2(time(instant) \div 3600) \o <<":">> \o Pad2((time(instant) % 3600) \div 60)

\* the calendar date of an instant, day 0 being 1 January 1970 of the local
\* zone: the proleptic Gregorian calendar in eras of 400 years counted from
\* 1 March
naive_date(instant) ==
    LET z == (instant \div SecondsPerDay) + 719468
        era == z \div 146097
        doe == z - era * 146097
        yoe == (doe - doe \div 1460 + doe \div 36524 - doe \div 146096) \div 365
        doy == doe - (365 * yoe + yoe \div 4 - yoe \div 100)
        mp == (5 * doy + 2) \div 153
        month == IF mp < 10 THEN mp + 3 ELSE mp - 9
    IN  [year |-> yoe + era * 400 + (IF month <= 2 THEN 1 ELSE 0),
         month |-> month,
         day |-> doy - (153 * mp + 2) \div 5 + 1]

\* %Y: at least four digits, zero-padded
Pad4(n) ==
    IF n < 10 THEN <<"0", "0", "0">> \o NatToString(n)
    ELSE IF n < 100 THEN <<"0", "0">> \o NatToString(n)
    ELSE IF n < 1000 THEN <<"0">> \o NatToString(n)
    ELSE NatToString(n)

\* format("%d.%m.%Y")
format_dmY(instant) ==
    Pad2(naive_date(instant).day) \o <<".">> \o Pad2(naive_date(instant).month)
        \o <<".">> \o Pad4(naive_date(instant).year)

\* NaiveTime::parse_from_str(t, "%H:%M"): one or two digits, a colon, one or
\* two digits, nothing else; the hour below 24, the minute below 60.
\* The result is the time of day in seconds, or None.
parse_from_str_HM(t) ==
    LET h == DigitsEnd(t, 1)
        m == DigitsEnd(t, h + 1)
    IN  IF /\ h \in 2..3
           /\ StartsWithAt(t, h, <<":">>)
           /\ m - (h + 1) \in 1..2
           /\ m = Len(t) + 1
           /\ ParseNat(SubSeq(t, 1, h - 1)) < 24
           /\ ParseNat(SubSeq(t, h + 1, m - 1)) < 60
        THEN Some(ParseNat(SubSeq(t, 1, h - 1)) * 3600
                  + ParseNat(SubSeq(t, h + 1, m - 1)) * 60)
        ELSE None

\* [a, b, c].join(sep)
RECURSIVE join(_, _)
join(strings, sep) ==
    IF Len(strings) = 0 THEN <<>>
    ELSE IF Len(strings) = 1 THEN strings[1]
    ELSE strings[1] \o sep \o join(Tail(strings), sep)

RECURSIVE Flatten(_)
Flatten(seqs) ==
    IF Len(seqs) = 0 THEN <<>> ELSE seqs[1] \o Flatten(Tail(seqs))

(***************************************************************************)
(* The rows of the three tables (ScheduleProjector).                       *)
(***************************************************************************)
\* delay_label with the guard `delay > 0`
delay_label_positive_only(delay) ==
    IF IsSome(delay) /\ Unwrap(delay) > 0
    THEN to_string(Unwrap(delay))
    ELSE <<"-">>

\* the match on the optional delay, in handle_routes and handle_departures
delay_label(delay) ==
    IF IsSome(delay) /\ Unwrap(delay) # 0
    THEN to_string(Unwrap(delay))
    ELSE <<"-">>

\* the closure of handle_routes, for a connection with at least one part
RouteTableEntry(connection, now) ==
    LET origin == connection.parts[1].from
        destination == connection.parts[Len(connection.parts)].to
    IN  [time |-> format_HM(origin.planned_departure) \o <<" ", "-", " ">>
                  \o format_HM(destination.planned_departure),
         in_minutes |->
            to_string(num_minutes(time(origin.planned_departure) - time(now))),
         duration |->
            to_string(num_minutes(time(destination.planned_departure)
                                  - time(origin.planned_departure))),
         lines |->
            join([i \in 1..Len(connection.parts) |->
                    main_colorize_line(connection.parts[i].line.label)],
                 <<",", " ">>),
         delay |-> delay_label(origin.departure_delay_in_minutes),
         info |->
            join(Flatten([i \in 1..Len(connection.parts) |->
                            connection.parts[i].messages]),
                 <<"\n">>)]

\* the closure of handle_departures
DeparturesTableEntry(departure, now) ==
    [time |-> format_HM(departure.planned_departure_time),
     in_minutes |->
        to_string(num_minutes(time(departure.planned_departure_time) - time(now))),
     line |-> main_colorize_line(departure.label),
     destination |-> departure.destination,
     delay |-> delay_label(departure.delay_in_minutes),
     info |-> join(departure.messages, <<"\n">>)]

\* Style::new().bold().paint(title)
bold(text) == <<ESC, "[", "1", "m">> \o text \o <<ESC, "[", "0", "m">>

\* the closure of handle_notifications; title and text stand for the plain
\* text html2text yields
NotificationsTableEntry(notification) ==
    [lines |->
        join([i \in 1..Len(notification.lines) |-> notification.lines[i].name],
             <<",", " ">>),
     duration |->
        format_dmY(notification.active_duration.from_date)
          \o <<" ", "-", " ">>
          \o (IF IsSome(notification.active_duration.to_date)
              THEN format_dmY(Unwrap(notification.active_duration.to_date))
              ELSE <<>>),
     details |-> bold(notification.title) \o <<"\n">> \o notification.text]

(***************************************************************************)
(* The notification filter: str::to_lowercase and str::contains.           *)
(***************************************************************************)
UpperChars == <<"A", "B", "C", "D", "E", "F", "G", "H", "I", "J", "K", "L", "M",
                "N", "O", "P", "Q", "R", "S", "T", "U", "V", "W", "X", "Y", "Z">>

LowerChars == <<"a", "b", "c", "d", "e", "f", "g", "h", "i", "j", "k", "l", "m",
                "n", "o", "p", "q", "r", "s", "t", "u", "v", "w", "x", "y", "z">>

LowerChar(c) ==
    IF \E i \in 1..26 : UpperChars[i] = c
    THEN LowerChars[CHOOSE i \in 1..26 : UpperChars[i] = c]
    ELSE c

to_lowercase(str) == [i \in 1..Len(str) |-> LowerChar(str[i])]

contains(haystack, needle) ==
    \E i \in 0..(Len(haystack) - Len(needle)) :
        SubSeq(haystack, i + 1, i + Len(needle)) = needle

\* entry_matches with the needle left in its own case
entry_matches_needle_as_typed(entry, f) == contains(to_lowercase(entry.lines), f)

\* the predicate handed to filter()
entry_matches(entry, f) == contains(to_lowercase(entry.lines), to_lowercase(f))

RECURSIVE filter_entries(_, _)
filter_entries(entries, f) ==
    IF Len(entries) = 0 THEN <<>>
    ELSE IF entry_matches(entries[1], f)
    THEN <<entries[1]>> \o filter_entries(Tail(entries), f)
    ELSE filter_entries(Tail(entries), f)

\* the match on the optional filter
apply_filter(entries, filter) ==
    IF IsSome(filter) THEN filter_entries(entries, Unwrap(filter)) ELSE entries


(***************************************************************************)
(* Inputs: what the command line and the service can hand to the handlers. *)
(***************************************************************************)
MaxLocations == 2
MaxParts == 2
MaxConnections == 2
MaxDepartures == 2
MaxNotifications == 3
MaxRowInputs == 1
MaxWindows == 2
MaxBadges == 2

\* limit=10 in the url of get_departures
LimitParam == 10

Ok(value) == [ok |-> TRUE, value |-> value]

Err == [ok |-> FALSE, value |-> <<>>]

\* the instants of planned departures and of the clock:
\* 08:00:00, 08:25:30 and 23:55:00 of day 0, 00:05:00 of day 1
Instants == {At(0, 8, 0, 0), At(0, 8, 25, 30), At(0, 23, 55, 0), At(1, 0, 5, 0)}

Nows == {At(0, 8, 25, 30), At(0, 23, 55, 0), At(1, 0, 5, 0)}

Delays == {None, Some(0), Some(-12), Some(5)}

\* mvg_api::Location, of which only the Station variant carries a global_id
Locations ==
    {[variant |-> "Station", global_id |-> id] : id \in {"de:09162:6", "de:09162:70"}}
    \cup {[variant |-> "Address", global_id |-> ""]}

GetStationResults == {Err} \cup {Ok(l) : l \in SeqsUpTo(Locations, MaxLocations)}

Stop(planned, delay) ==
    [planned_departure |-> planned, departure_delay_in_minutes |-> delay]

\* a connection of n parts from an origin stop to a destination stop; the
\* stops in between are planned at the origin's instant with a delay of 7
MkConnection(n, origin, destination, delay) ==
    [parts |->
        [i \in 1..n |->
            [from |-> IF i = 1 THEN Stop(origin, delay) ELSE Stop(origin, Some(7)),
             to |-> IF i = n THEN Stop(destination, None) ELSE Stop(origin, Some(7)),
             line |-> [label |-> IF i % 2 = 1 THEN <<"U", "6">> ELSE <<"S", "8">>],
             messages |-> IF i = 1 THEN << <<"G", "l", ".", "2">> >> ELSE <<>>]]]

Connections ==
    {MkConnection(n, o, d, delay) :
        n \in 0..MaxParts, o \in Instants, d \in Instants, delay \in Delays}

SampleConnections ==
    {MkConnection(n, At(0, 8, 0, 0), At(0, 8, 25, 30), Some(5)) : n \in 0..MaxParts}

GetRoutesResults ==
    {Err} \cup {Ok(l) : l \in SeqsUpTo(SampleConnections, MaxConnections)}

MkDeparture(planned, delay, label) ==
    [planned_departure_time |-> planned,
     delay_in_minutes |-> delay,
     label |-> label,
     destination |-> <<"Z", "o", "o">>,
     messages |-> <<>>]

Departures ==
    {MkDeparture(t, delay, label) :
        t \in Instants, delay \in Delays, label \in {<<"U", "6">>, <<"N", "4", "0">>}}

SampleDepartures ==
    {MkDeparture(At(0, 8, 25, 30), delay, <<"U", "6">>) : delay \in {None, Some(-12)}}

GetDeparturesResults ==
    {Err} \cup {Ok(l) : l \in SeqsUpTo(SampleDepartures, MaxDepartures)}

LineLists ==
    {<<>>,
     <<[name |-> <<"U", "6">>]>>,
     <<[name |-> <<"S", "8">>]>>,
     <<[name |-> <<"U", "6">>], [name |-> <<"S", "8">>]>>}

\* 31.12.2023 23:59, 29.02.2024 12:00 and 01.03.2024 00:00
NotificationInstants ==
    {At(19722, 23, 59, 0), At(19782, 12, 0, 0), At(19783, 0, 0, 0)}

\* Duration of notifications.rs: an incident window, open while `to` is absent
Durations ==
    {[from |-> f, to |-> t] :
        f \in NotificationInstants, t \in {None}}
    \cup {[from |-> f, to |-> Some(t)] :
            f \in NotificationInstants,
            t \in NotificationInstants \ {At(19722, 23, 59, 0)}}

\* the active_duration the closure of handle_notifications reads
ActiveDurations ==
    {[from_date |-> d.from, to_date |-> d.to] : d \in Durations}

MkNotification(line_list, title, incident_durations, active_duration) ==
    [lines |-> line_list, title |-> title, text |-> <<>>,
     incident_durations |-> incident_durations,
     active_duration |-> active_duration]

\* one notification per list of lines, and a second one for U6 that differs
\* in its title only
Notifications ==
    {MkNotification(n.lines, n.title,
                    <<[from |-> At(19782, 12, 0, 0), to |-> None]>>,
                    [from_date |-> At(19782, 12, 0, 0), to_date |-> None]) :
        n \in {[lines |-> l, title |-> <<"a">>] : l \in LineLists}
               \cup {[lines |-> <<[name |-> <<"U", "6">>]>>, title |-> <<"b">>]}}

\* notifications that differ in their windows: one window or more, up to
\* MaxWindows
WindowNotifications ==
    {MkNotification(<<[name |-> <<"U", "6">>]>>, <<"a">>, w, a) :
        w \in SeqsUpTo(Durations, MaxWindows) \ {<<>>}, a \in ActiveDurations}

GetNotificationsResults ==
    {Err} \cup {Ok(l) : l \in SeqsUpTo(Notifications, MaxNotifications)}

\* --filter: absent, empty, and needles that match by case only, in the
\* middle of a field, across the separator, or nowhere
Filters ==
    {None, Some(<<>>), Some(<<"s", "8">>), Some(<<"U", "6">>), Some(<<"6">>),
     Some(<<",", " ", "s">>), Some(<<"S", "6">>)}

\* --time: absent, well-formed, out of range
TimeArgs ==
    {None, Some(<<"0", "8", ":", "2", "5">>), Some(<<"2", "5", ":", "0", "0">>)}

\* terminal_size(): no terminal, or its width in columns
TerminalSizes == {None, Some(40), Some(120)}

\* clap: --arrival requires --time
Commands ==
    {c \in {[cmd |-> "Routes", from |-> "from", to |-> "to", time |-> t,
              arrival |-> a] : t \in TimeArgs, a \in BOOLEAN} :
        c.arrival => IsSome(c.time)}
    \cup {[cmd |-> "Departures", station |-> "station", offset |-> o] :
            o \in {None, Some(5)}}
    \cup {[cmd |-> "Notifications", filter |-> f] : f \in Filters}

Line(text) == [kind |-> "line", text |-> text, rows |-> <<>>]

TableOf(rows) == [kind |-> "table", text |-> "", rows |-> rows]

Ended(status, error, at) == [status |-> status, error |-> error, at |-> at]


(***************************************************************************)
(* main and the three handlers of src/src/main.rs.                         *)
(***************************************************************************)
\* `&get_station(..).await?[0]` followed by the match on the variant
first_station(result) ==
    IF ~result.ok
    THEN [status |-> "Err", error |-> "reqwest::Error", id |-> ""]
    ELSE IF Len(result.value) = 0
    THEN [status |-> "panic", error |-> "index out of bounds", id |-> ""]
    ELSE IF result.value[1].variant # "Station"
    THEN [status |-> "panic", error |-> "not yet implemented", id |-> ""]
    ELSE [status |-> "Ok", error |-> "", id |-> result.value[1].global_id]

\* one call of get_station from position `at`, binding the id named `field`
ResolveStation(at, query, field, next) ==
    \E result \in GetStationResults :
        LET r == first_station(result)
        IN  /\ requests' = Append(requests, [op |-> "get_station", query |-> query])
            /\ response' = [of |-> "get_station", ok |-> result.ok,
                            value |-> result.value]
            /\ IF r.status = "Ok"
               THEN /\ ids' = [ids EXCEPT ![field] = Some(r.id)]
                    /\ pc' = next
                    /\ outcome' = outcome
               ELSE /\ ids' = ids
                    /\ pc' = "done"
                    /\ outcome' = Ended(r.status, r.error, at)

Main ==
    /\ pc = "main"
    /\ stdout' = Append(stdout, Line("args"))
    /\ pc' = CASE command.cmd = "Routes" -> "routes_from"
               [] command.cmd = "Departures" -> "departures_station"
               [] command.cmd = "Notifications" -> "notifications_get"
    /\ UNCHANGED <<command, ids, requests, response, table_entries, outcome, clock>>

HandleRoutesFrom ==
    /\ pc = "routes_from"
    /\ stdout' = Append(stdout, Line("routes with"))
    /\ ResolveStation("routes_from", command.from, "from_id", "routes_to")
    /\ UNCHANGED <<command, table_entries, clock>>

HandleRoutesTo ==
    /\ pc = "routes_to"
    /\ ResolveStation("routes_to", command.to, "to_id", "routes_first_get_routes")
    /\ UNCHANGED <<command, table_entries, stdout, clock>>

\* the first get_routes call, whose result is shadowed by the second
HandleRoutesFirstGetRoutes ==
    /\ pc = "routes_first_get_routes"
    /\ requests' = Append(requests,
            [op |-> "get_routes", from |-> Unwrap(ids.from_id),
             to |-> Unwrap(ids.to_id), time |-> None, arrival |-> None])
    /\ \E result \in GetRoutesResults :
          /\ response' = [of |-> "get_routes", ok |-> result.ok, value |-> <<>>]
          /\ IF result.ok
             THEN pc' = "routes_get_routes" /\ outcome' = outcome
             ELSE /\ pc' = "done"
                  /\ outcome' = Ended("Err", "reqwest::Error", "routes_first_get_routes")
    /\ UNCHANGED <<command, ids, table_entries, stdout, clock>>

\* the match on --time and the second get_routes call
HandleRoutesGetRoutes ==
    /\ pc = "routes_get_routes"
    /\ LET parsed == IF IsSome(command.time)
                     THEN parse_from_str_HM(Unwrap(command.time))
                     ELSE None
       IN  IF IsSome(command.time) /\ ~IsSome(parsed)
           THEN /\ pc' = "done"
                /\ outcome' = Ended("Err", "ParseError", "routes_get_routes")
                /\ UNCHANGED <<requests, response, clock>>
           ELSE \E now \in Nows, result \in GetRoutesResults :
                   LET at == IF IsSome(command.time)
                             THEN date_naive(now) + Unwrap(parsed)
                             ELSE now
                   IN  /\ clock' = Some(now)
                       /\ requests' = Append(requests,
                             [op |-> "get_routes", from |-> Unwrap(ids.from_id),
                              to |-> Unwrap(ids.to_id), time |-> Some(at),
                              arrival |-> Some(command.arrival)])
                       /\ response' = [of |-> "get_routes", ok |-> result.ok,
                                       value |-> result.value]
                       /\ IF result.ok
                          THEN pc' = "routes_entries" /\ outcome' = outcome
                          ELSE /\ pc' = "done"
                               /\ outcome' = Ended("Err", "reqwest::Error",
                                                   "routes_get_routes")
    /\ UNCHANGED <<command, ids, table_entries, stdout>>

\* one turn of routes.iter().map(..): the row of the next connection
HandleRoutesEntry ==
    /\ pc = "routes_entries"
    /\ Len(table_entries) < Len(response.value)
    /\ LET connection == response.value[Len(table_entries) + 1]
       IN  IF Len(connection.parts) = 0
           THEN /\ pc' = "done"
                /\ outcome' = Ended("panic", "index out of bounds", "routes_entries")
                /\ UNCHANGED <<table_entries, clock>>
           ELSE /\ \E now \in Nows :
                     /\ clock' = Some(now)
                     /\ table_entries' =
                           Append(table_entries, RouteTableEntry(connection, now))
                /\ UNCHANGED <<pc, outcome>>
    /\ UNCHANGED <<command, ids, requests, response, stdout>>

HandleRoutesPrint ==
    /\ pc = "routes_entries"
    /\ Len(table_entries) = Len(response.value)
    /\ stdout' = Append(stdout, TableOf(table_entries))
    /\ pc' = "done"
    /\ outcome' = Ended("Ok", "", "routes_print")
    /\ UNCHANGED <<command, ids, requests, response, table_entries, clock>>

HandleDeparturesStation ==
    /\ pc = "departures_station"
    /\ stdout' = Append(stdout, Line("departures with"))
    /\ ResolveStation("departures_station", command.station, "station_id",
                      "departures_get")
    /\ UNCHANGED <<command, table_entries, clock>>

\* the query string of the url get_departures formats, one record per
\* parameter in the order of the format string, the names spelled as there
get_departures_url(station_id, offset_in_min) ==
    <<[name |-> "globalId", value |-> <<station_id>>],
      [name |-> "limit", value |-> NatToString(LimitParam)],
      [name |-> "offestInMinutes", value |-> NatToString(offset_in_min)],
      [name |-> "transportTypes",
       value |-> <<"UBAHN", "REGIONAL_BUS", "BUS", "TRAM", "SBAHN", "SCHIFF">>]>>

\* handle_departures names no offset in its call of get_departures, whose
\* second parameter is the offset: the value that arrives there is either
\* the default or the one of the command line
offset_arguments(offset) == {0} \cup {Unwrap(o) : o \in {offset} \ {None}}

HandleDeparturesGet ==
    /\ pc = "departures_get"
    /\ \E offset_in_min \in offset_arguments(command.offset) :
          requests' = Append(requests,
            [op |-> "get_departures", station_id |-> Unwrap(ids.station_id),
             params |-> get_departures_url(Unwrap(ids.station_id), offset_in_min)])
    /\ \E result \in GetDeparturesResults :
          /\ response' = [of |-> "get_departures", ok |-> result.ok,
                          value |-> result.value]
          /\ IF result.ok
             THEN pc' = "departures_entries" /\ outcome' = outcome
             ELSE /\ pc' = "done"
                  /\ outcome' = Ended("Err", "reqwest::Error", "departures_get")
    /\ UNCHANGED <<command, ids, table_entries, stdout, clock>>

\* one turn of departures.iter().map(..): the row of the next departure
HandleDeparturesEntry ==
    /\ pc = "departures_entries"
    /\ Len(table_entries) < Len(response.value)
    /\ \E now \in Nows :
          /\ clock' = Some(now)
          /\ table_entries' =
                Append(table_entries,
                       DeparturesTableEntry(response.value[Len(table_entries) + 1], now))
    /\ UNCHANGED <<pc, command, ids, requests, response, stdout, outcome>>

HandleDeparturesPrint ==
    /\ pc = "departures_entries"
    /\ Len(table_entries) = Len(response.value)
    /\ stdout' = Append(stdout, TableOf(table_entries))
    /\ pc' = "done"
    /\ outcome' = Ended("Ok", "", "departures_print")
    /\ UNCHANGED <<command, ids, requests, response, table_entries, clock>>

HandleNotificationsGet ==
    /\ pc = "notifications_get"
    /\ stdout' = Append(stdout, Line("notifications with"))
    /\ requests' = Append(requests, [op |-> "get_notifications"])
    /\ \E result \in GetNotificationsResults :
          /\ response' = [of |-> "get_notifications", ok |-> result.ok,
                          value |-> result.value]
          /\ IF result.ok
             THEN pc' = "notifications_entries" /\ outcome' = outcome
             ELSE /\ pc' = "done"
                  /\ outcome' = Ended("Err", "reqwest::Error", "notifications_get")
    /\ UNCHANGED <<command, ids, table_entries, clock>>

\* notifications.iter().map(..).collect()
HandleNotificationsEntries ==
    /\ pc = "notifications_entries"
    /\ table_entries' =
          [i \in 1..Len(response.value) |-> NotificationsTableEntry(response.value[i])]
    /\ pc' = "notifications_filter"
    /\ UNCHANGED <<command, ids, requests, response, stdout, outcome, clock>>

HandleNotificationsFilter ==
    /\ pc = "notifications_filter"
    /\ table_entries' = apply_filter(table_entries, command.filter)
    /\ pc' = "notifications_print"
    /\ UNCHANGED <<command, ids, requests, response, stdout, outcome, clock>>

\* the is_empty() check, terminal_size() and the table; `terminal_width as
\* usize - 50` below 50 columns panics in a build with overflow checks and
\* wraps around in one without
HandleNotificationsPrint ==
    /\ pc = "notifications_print"
    /\ pc' = "done"
    /\ IF Len(table_entries) = 0
       THEN /\ stdout' = Append(stdout, Line("No notifications found"))
            /\ outcome' = Ended("Ok", "", "notifications_print")
       ELSE \E size \in TerminalSizes, overflow_checks \in BOOLEAN :
               IF ~IsSome(size)
               THEN /\ outcome' = Ended("panic", "Not in a terminal", "notifications_print")
                    /\ UNCHANGED stdout
               ELSE IF Unwrap(size) < 50 /\ overflow_checks
               THEN /\ outcome' = Ended("panic", "attempt to subtract with overflow",
                                        "notifications_print")
                    /\ UNCHANGED stdout
               ELSE /\ stdout' = Append(stdout, TableOf(table_entries))
                    /\ outcome' = Ended("Ok", "", "notifications_print")
    /\ UNCHANGED <<command, ids, requests, response, table_entries, clock>>

Init ==
    /\ pc = "main"
    /\ command \in Commands
    /\ ids = [from_id |-> None, to_id |-> None, station_id |-> None]
    /\ requests = <<>>
    /\ response = [of |-> "none", ok |-> TRUE, value |-> <<>>]
    /\ table_entries = <<>>
    /\ stdout = <<>>
    /\ outcome = Ended("running", "", "")
    /\ clock = None
    /\ lines = <<>>
    /\ styled = <<>>
    /\ renderer = "none"

Next ==
    \/ Main /\ UNCHANGED colorVars
    \/ HandleRoutesFrom /\ UNCHANGED colorVars
    \/ HandleRoutesTo /\ UNCHANGED colorVars
    \/ HandleRoutesFirstGetRoutes /\ UNCHANGED colorVars
    \/ HandleRoutesGetRoutes /\ UNCHANGED colorVars
    \/ HandleRoutesEntry /\ UNCHANGED colorVars
    \/ HandleRoutesPrint /\ UNCHANGED colorVars
    \/ HandleDeparturesStation /\ UNCHANGED colorVars
    \/ HandleDeparturesGet /\ UNCHANGED colorVars
    \/ HandleDeparturesEntry /\ UNCHANGED colorVars
    \/ HandleDeparturesPrint /\ UNCHANGED colorVars
    \/ HandleNotificationsGet /\ UNCHANGED colorVars
    \/ HandleNotificationsEntries /\ UNCHANGED colorVars
    \/ HandleNotificationsFilter /\ UNCHANGED colorVars
    \/ HandleNotificationsPrint /\ UNCHANGED colorVars

Spec == Init /\ [][Next]_vars

(***************************************************************************)
(* The row closures on their own: the handlers from the point where the    *)
(* response has been decoded, over the full range of instants and delays.  *)
(***************************************************************************)
InitRows ==
    /\ \/ /\ pc = "routes_entries"
          /\ command = [cmd |-> "Routes", from |-> "from", to |-> "to",
                        time |-> None, arrival |-> FALSE]
          /\ response \in {[of |-> "get_routes", ok |-> TRUE, value |-> l] :
                              l \in SeqsUpTo(Connections, MaxRowInputs)}
       \/ /\ pc = "departures_entries"
          /\ command = [cmd |-> "Departures", station |-> "station", offset |-> None]
          /\ response \in {[of |-> "get_departures", ok |-> TRUE, value |-> l] :
                              l \in SeqsUpTo(Departures, MaxRowInputs)}
    /\ ids = [from_id |-> None, to_id |-> None, station_id |-> None]
    /\ requests = <<>>
    /\ table_entries = <<>>
    /\ stdout = <<>>
    /\ outcome = Ended("running", "", "")
    /\ clock = None
    /\ lines = <<>>
    /\ styled = <<>>
    /\ renderer = "none"

NextRows ==
    \/ HandleRoutesEntry /\ UNCHANGED colorVars
    \/ HandleRoutesPrint /\ UNCHANGED colorVars
    \/ HandleDeparturesEntry /\ UNCHANGED colorVars
    \/ HandleDeparturesPrint /\ UNCHANGED colorVars

SpecRows == InitRows /\ [][NextRows]_vars

\* handle_notifications from its row closure on, over WindowNotifications
InitNotificationRows ==
    /\ pc = "notifications_entries"
    /\ command = [cmd |-> "Notifications", filter |-> None]
    /\ response \in {[of |-> "get_notifications", ok |-> TRUE, value |-> l] :
                        l \in SeqsUpTo(WindowNotifications, MaxRowInputs)}
    /\ ids = [from_id |-> None, to_id |-> None, station_id |-> None]
    /\ requests = <<>>
    /\ table_entries = <<>>
    /\ stdout = <<>>
    /\ outcome = Ended("running", "", "")
    /\ clock = None
    /\ lines = <<>>
    /\ styled = <<>>
    /\ renderer = "none"

NextNotificationRows ==
    \/ HandleNotificationsEntries /\ UNCHANGED colorVars
    \/ HandleNotificationsFilter /\ UNCHANGED colorVars
    \/ HandleNotificationsPrint /\ UNCHANGED colorVars

SpecNotificationRows == InitNotificationRows /\ [][NextNotificationRows]_vars

\* affected lines by their label: two with a badge of colorize_line and one
\* without
BadgeLineLists ==
    SeqsUpTo({[label |-> <<"U", "6">>], [label |-> <<"S", "8">>],
              [label |-> <<"U", "9">>]}, MaxBadges)

BadgeNotifications ==
    {MkNotification(l, <<"a">>,
                    <<[from |-> At(19782, 12, 0, 0), to |-> None]>>,
                    [from_date |-> At(19782, 12, 0, 0), to_date |-> None]) :
        l \in BadgeLineLists}

\* a notification row whose lines field is the comma-joined badges that
\* colorize_line makes of the labels of the affected lines
BadgeNotificationsTableEntry(notification) ==
    [lines |->
        join([i \in 1..Len(notification.lines) |->
                 colorize_line(notification.lines[i].label)],
             <<",", " ">>),
     duration |->
        format_dmY(notification.active_duration.from_date) \o <<" ", "-", " ">>,
     details |-> bold(notification.title) \o <<"\n">> \o notification.text]

\* --filter with a needle of letters and digits
Needles ==
    {<<"u", "6">>, <<"S", "8">>, <<"9">>, <<"x">>,
     <<"5">>, <<"m">>, <<"2", "0">>, <<"2", "5", "5">>}

\* the filter of handle_notifications, applied to rows of badges
InitFilter ==
    /\ pc = "notifications_filter"
    /\ command \in {[cmd |-> "Notifications", filter |-> Some(f)] : f \in Needles}
    /\ \E l \in SeqsUpTo(BadgeNotifications, MaxRowInputs) :
          /\ response = [of |-> "get_notifications", ok |-> TRUE, value |-> l]
          /\ table_entries =
                [i \in 1..Len(l) |-> BadgeNotificationsTableEntry(l[i])]
    /\ ids = [from_id |-> None, to_id |-> None, station_id |-> None]
    /\ requests = <<>>
    /\ stdout = <<>>
    /\ outcome = Ended("running", "", "")
    /\ clock = None
    /\ lines = <<>>
    /\ styled = <<>>
    /\ renderer = "none"

NextFilter ==
    \/ HandleNotificationsFilter /\ UNCHANGED colorVars
    \/ HandleNotificationsPrint /\ UNCHANGED colorVars

SpecFilter == InitFilter /\ [][NextFilter]_vars


(***************************************************************************)
(* Claims about the rows.                                                  *)
(***************************************************************************)
RouteRows == response.of = "get_routes"

DepartureRows == response.of = "get_departures"

\* the delay the i-th row was built from
SourceDelay(i) ==
    IF RouteRows
    THEN response.value[i].parts[1].from.departure_delay_in_minutes
    ELSE response.value[i].delay_in_minutes

\* the planned departure the i-th row was built from
SourcePlanned(i) ==
    IF RouteRows
    THEN response.value[i].parts[1].from.planned_departure
    ELSE response.value[i].planned_departure_time

\* str is the decimal numeral of n: a minus sign exactly when n is negative,
\* then the digits of |n| without a leading zero
IsSignedDecimalOf(str, n) ==
    LET digits == IF n < 0 THEN Tail(str) ELSE str
    IN  /\ Len(str) >= 1
        /\ (n < 0) <=> (str[1] = "-")
        /\ Len(digits) >= 1
        /\ \A k \in 1..Len(digits) : IsDigit(digits[k])
        /\ Len(digits) > 1 => digits[1] # "0"
        /\ ParseNat(digits) = (IF n < 0 THEN -n ELSE n)

\* C1: in every departure row and every route row the delay label is "-"
\* exactly when the delay is absent or 0, and otherwise it is the signed
\* decimal numeral of the delay.
DelayLabelDashOrSignedDecimal ==
    (RouteRows \/ DepartureRows) =>
        \A i \in 1..Len(table_entries) :
            LET delay == SourceDelay(i)
                label == table_entries[i].delay
            IN  /\ (label = <<"-">>) <=> (~IsSome(delay) \/ Unwrap(delay) = 0)
                /\ (IsSome(delay) /\ Unwrap(delay) # 0)
                      => IsSignedDecimalOf(label, Unwrap(delay))

NegativeDelayRendered ==
    /\ RouteRows
    /\ Len(table_entries) = 1
    /\ SourceDelay(1) = Some(-12)
    /\ table_entries[1].delay = <<"-", "1", "2">>

\* C3: the duration of a route row is the whole minutes from the origin's
\* planned departure instant to the destination's, so it is not negative
\* when the destination instant is not before the origin instant; and the
\* time window shows the two times of day.
DurationIsMinutesBetweenInstants ==
    RouteRows =>
        \A i \in 1..Len(table_entries) :
            LET parts == response.value[i].parts
                origin == parts[1].from.planned_departure
                destination == parts[Len(parts)].to.planned_departure
            IN  /\ table_entries[i].duration =
                      to_string(TruncDiv(destination - origin, 60))
                /\ destination >= origin => table_entries[i].duration[1] # "-"
                /\ table_entries[i].time =
                      format_HM(origin) \o <<" ", "-", " ">> \o format_HM(destination)

\* C10: the "In" value of the row built last is the signed whole-minute
\* difference, truncated toward zero, between the planned departure instant
\* and the instant the clock showed.
InMinutesIsDifferenceOfInstants ==
    ((RouteRows \/ DepartureRows) /\ Len(table_entries) >= 1 /\ IsSome(clock)) =>
        LET i == Len(table_entries)
            planned == SourcePlanned(i)
            now == Unwrap(clock)
        IN  /\ table_entries[i].in_minutes = to_string(TruncDiv(planned - now, 60))
            /\ (table_entries[i].in_minutes[1] = "-") => planned < now


(***************************************************************************)
(* Claims about the handlers.                                              *)
(***************************************************************************)
Last(seq) == seq[Len(seq)]

\* the id field the last get_station call was to bind
FieldOf(query) ==
    CASE query = "from" -> "from_id"
      [] query = "to" -> "to_id"
      [] query = "station" -> "station_id"

HasStation(locations) ==
    \E i \in 1..Len(locations) : locations[i].variant = "Station"

FirstStationOf(locations) ==
    locations[CHOOSE i \in 1..Len(locations) :
                /\ locations[i].variant = "Station"
                /\ \A j \in 1..(i - 1) : locations[j].variant # "Station"]

\* C2: once get_station has returned a list, the id bound is that of the
\* first Station of the list wherever it stands, and a list without a
\* Station ends the handler with an error, never a panic.
FirstStationAnywhereResolves ==
    (response.of = "get_station" /\ response.ok) =>
        IF HasStation(response.value)
        THEN /\ outcome.status = "running"
             /\ ids[FieldOf(Last(requests).query)]
                   = Some(FirstStationOf(response.value).global_id)
        ELSE /\ pc = "done"
             /\ outcome.status = "Err"

\* in a route query, the resolution that ran last did not yield a station
ResolutionFailed ==
    /\ command.cmd = "Routes"
    /\ response.of = "get_station"
    /\ ~(response.ok /\ HasStation(response.value))

\* C7: a routes request is sent only with both ids bound, and a resolution
\* that fails ends the query with the error of that location and without
\* any routes request.
ResolutionsFailFast ==
    /\ \A k \in 1..Len(requests) :
          requests[k].op = "get_routes" =>
              /\ IsSome(ids.from_id)
              /\ IsSome(ids.to_id)
              /\ \E i, j \in 1..(k - 1) :
                    /\ requests[i] = [op |-> "get_station", query |-> "from"]
                    /\ requests[j] = [op |-> "get_station", query |-> "to"]
    /\ ResolutionFailed =>
          /\ pc = "done"
          /\ outcome.status = "Err"
          /\ outcome.at = (IF Last(requests).query = "from"
                           THEN "routes_from"
                           ELSE "routes_to")
          /\ \A k \in 1..Len(requests) : requests[k].op # "get_routes"

\* C8: a routes response never ends in a panic: either every connection has
\* its row, or the query ended with an error.
ZeroPartsIsAnErrorNotAPanic ==
    (response.of = "get_routes" /\ response.ok) =>
        /\ outcome.status # "panic"
        /\ outcome.status = "Ok" => Len(table_entries) = Len(response.value)
        /\ \A i \in 1..Len(table_entries) : Len(response.value[i].parts) >= 1

\* the handler got as far as printing its result
ReachedPrint ==
    /\ pc = "done"
    /\ outcome.at \in {"routes_print", "departures_print", "notifications_print"}

\* C9: a query that ends with zero rows succeeds and prints the "nothing
\* found" line instead of a table; with rows left it prints the table of them.
ZeroRowsPrintNothingFound ==
    ReachedPrint =>
        /\ outcome.status = "Ok"
        /\ IF Len(table_entries) = 0
           THEN Last(stdout).kind = "line"
           ELSE Last(stdout) = TableOf(table_entries)

\* the rows before filtering
UnfilteredEntries ==
    [i \in 1..Len(response.value) |-> NotificationsTableEntry(response.value[i])]

SameLetter(a, b) ==
    \/ a = b
    \/ \E k \in 1..26 : {a, b} = {UpperChars[k], LowerChars[k]}

ContainsIgnoringCase(haystack, needle) ==
    \E offset \in 0..(Len(haystack) - Len(needle)) :
        \A j \in 1..Len(needle) : SameLetter(haystack[offset + j], needle[j])

\* the indices of the rows the filter is to keep
KeptIndices ==
    {i \in 1..Len(UnfilteredEntries) :
        \/ ~IsSome(command.filter)
        \/ ContainsIgnoringCase(UnfilteredEntries[i].lines, Unwrap(command.filter))}

Filtered ==
    /\ response.of = "get_notifications"
    /\ pc \in {"notifications_print", "done"}
    /\ response.ok

\* C4: after the filter the table holds exactly the rows whose lines field
\* contains the needle regardless of case, unchanged and in their original
\* order; every row when the filter is absent or the needle empty.
FilterKeepsMatchingRowsInOrder ==
    Filtered =>
        /\ Len(table_entries) = Cardinality(KeptIndices)
        /\ \A k \in 1..Len(table_entries) :
              table_entries[k] =
                 UnfilteredEntries[CHOOSE i \in KeptIndices :
                                      Cardinality({j \in KeptIndices : j <= i}) = k]
        /\ (~IsSome(command.filter) \/ command.filter = Some(<<>>))
              => table_entries = UnfilteredEntries

FilterByLowercaseS8 ==
    /\ Filtered
    /\ command.filter = Some(<<"s", "8">>)
    /\ Len(UnfilteredEntries) = 3
    /\ UnfilteredEntries[1].lines = <<"U", "6">>
    /\ UnfilteredEntries[2].lines = <<"S", "8">>
    /\ UnfilteredEntries[3].lines = <<"U", "6", ",", " ", "S", "8">>
    /\ table_entries = <<UnfilteredEntries[2], UnfilteredEntries[3]>>


\* the offset the caller supplied, an absent one meaning 0
SuppliedOffset ==
    IF IsSome(command.offset) THEN Unwrap(command.offset) ELSE 0

\* the values a query string carries under a parameter name
ValuesOf(params, name) ==
    {params[i].value : i \in {j \in 1..Len(params) : params[j].name = name}}

DeparturesRequests ==
    {i \in 1..Len(requests) : requests[i].op = "get_departures"}

\* C11: every departures request carries globalId=<the station's id>,
\* limit=10, the offset the caller supplied (0 when absent) under the
\* parameter named offsetInMinutes, and the fixed whitelist of transport
\* types, so that an offset of the command line reaches the service.
DeparturesRequestCarriesTheOffset ==
    \A i \in DeparturesRequests :
        LET params == requests[i].params
        IN  /\ ValuesOf(params, "globalId") = {<<Unwrap(ids.station_id)>>}
            /\ ValuesOf(params, "limit") = {<<"1", "0">>}
            /\ \E value \in ValuesOf(params, "offsetInMinutes") :
                  /\ ValuesOf(params, "offsetInMinutes") = {value}
                  /\ Len(value) > 0
                  /\ \A k \in 1..Len(value) : IsDigit(value[k])
                  /\ ParseNat(value) = SuppliedOffset
            /\ ValuesOf(params, "transportTypes") =
                  {<<"UBAHN", "REGIONAL_BUS", "BUS", "TRAM", "SBAHN", "SCHIFF">>}


(***************************************************************************)
(* Claims about the notification rows.                                     *)
(***************************************************************************)
LeapYear(y) == (y % 4 = 0 /\ y % 100 # 0) \/ y % 400 = 0

DaysInMonth(y, m) ==
    IF m = 2 THEN (IF LeapYear(y) THEN 29 ELSE 28)
    ELSE IF m \in {4, 6, 9, 11} THEN 30 ELSE 31

RECURSIVE DaysBeforeYear(_)
DaysBeforeYear(y) ==
    IF y <= 1970 THEN 0
    ELSE DaysBeforeYear(y - 1) + (IF LeapYear(y - 1) THEN 366 ELSE 365)

RECURSIVE DaysBeforeMonth(_, _)
DaysBeforeMonth(y, m) ==
    IF m <= 1 THEN 0 ELSE DaysBeforeMonth(y, m - 1) + DaysInMonth(y, m - 1)

\* str is DD.MM.YYYY of the day the instant falls on
IsDateOf(str, instant) ==
    /\ Len(str) = 10
    /\ str[3] = "." /\ str[6] = "."
    /\ \A k \in {1, 2, 4, 5, 7, 8, 9, 10} : IsDigit(str[k])
    /\ LET d == ParseNat(SubSeq(str, 1, 2))
           m == ParseNat(SubSeq(str, 4, 5))
           y == ParseNat(SubSeq(str, 7, 10))
       IN  /\ y >= 1970
           /\ m \in 1..12
           /\ d \in 1..DaysInMonth(y, m)
           /\ DaysBeforeYear(y) + DaysBeforeMonth(y, m) + (d - 1)
                 = instant \div SecondsPerDay

\* str is the validity window of the Duration-like record with the given
\* from and optional to: from, " - ", then to or nothing
IsWindowOf(str, from, to) ==
    /\ Len(str) >= 13
    /\ IsDateOf(SubSeq(str, 1, 10), from)
    /\ SubSeq(str, 11, 13) = <<" ", "-", " ">>
    /\ IF IsSome(to)
       THEN IsDateOf(SubSeq(str, 14, Len(str)), Unwrap(to))
       ELSE Len(str) = 13

NotificationRowsBuilt ==
    /\ response.of = "get_notifications"
    /\ response.ok
    /\ pc = "notifications_filter"

\* C12: the validity window of every notification row is that of the first
\* incident window, incident_durations[0], whatever further windows exist:
\* its from as DD.MM.YYYY, " - ", then its to as DD.MM.YYYY when present and
\* nothing when absent.
WindowIsTheFirstIncidentWindow ==
    NotificationRowsBuilt =>
        \A i \in 1..Len(table_entries) :
            IsWindowOf(table_entries[i].duration,
                       response.value[i].incident_durations[1].from,
                       response.value[i].incident_durations[1].to)


(***************************************************************************)
(* Claims about the filter over rows of badges.                            *)
(***************************************************************************)
\* the rows of badges before filtering
UnfilteredBadgeEntries ==
    [i \in 1..Len(response.value) |->
        BadgeNotificationsTableEntry(response.value[i])]

\* the needle occurs, whatever the case, in one of the labels of the lines
\* the notification affects
NeedleInVisibleLabel(notification) ==
    \E j \in 1..Len(notification.lines) :
        ContainsIgnoringCase(notification.lines[j].label, Unwrap(command.filter))

=============================================================================
